---- MODULE Spec2Model ----
(***************************************************************************)
(* Model of z0mbix/go-microservices-monorepo: the logger factory           *)
(* (pkg/logger), the configuration loader (pkg/config), the service        *)
(* wrapper (pkg/service), the version lookup (pkg/version) and a service   *)
(* entry point (services/shipping/main.go).                                *)
(*                                                                         *)
(* Go strings are sequences of one-character strings, so that case         *)
(* folding, integer parsing, formatting and prefix matching are computed   *)
(* character by character as the code computes them.                       *)
(***************************************************************************)
EXTENDS Integers, Sequences, FiniteSets, TLC

VARIABLES program, env, buildInfo, pc, serviceVersion, cfg, svc, log, err,
          call, defaultLogger, stdout, mux, response

vars == <<program, env, buildInfo, pc, serviceVersion, cfg, svc, log, err,
          call, defaultLogger, stdout, mux, response>>

-----------------------------------------------------------------------------
(* Bounds of the model.                                                    *)

\* Longest option list a test passes to a constructor.
MaxOpts == 2
\* Most records kept on standard output.
MaxStdout == 2

-----------------------------------------------------------------------------
(* String literals.                                                        *)

S_empty == <<>>
S_debug == <<"d","e","b","u","g">>
S_info == <<"i","n","f","o">>
S_warn == <<"w","a","r","n">>
S_error == <<"e","r","r","o","r">>
S_DEBUG == <<"D","E","B","U","G">>
S_INFO == <<"I","N","F","O">>
S_WARN == <<"W","A","R","N">>
S_ERROR == <<"E","R","R","O","R">>
S_trace == <<"t","r","a","c","e">>
S_TRACE == <<"T","R","A","C","E">>
S_Trace == <<"T","r","a","c","e">>
S_critical == <<"c","r","i","t","i","c","a","l">>
S_warning == <<"w","a","r","n","i","n","g">>
S_inf == <<"i","n","f">>
S_local == <<"l","o","c","a","l">>
S_production == <<"p","r","o","d","u","c","t","i","o","n">>
S_unknown == <<"u","n","k","n","o","w","n">>
S_semver == <<"v","1",".","2",".","3">>
S_testVersion == <<"t","e","s","t","-","v","e","r","s","i","o","n">>
S_shipping == <<"s","h","i","p","p","i","n","g">>
S_devel == <<"(","d","e","v","e","l",")">>
S_staging == <<"s","t","a","g","i","n","g">>
S_order == <<"o","r","d","e","r">>
S_starting == <<"s","t","a","r","t","i","n","g">>
S_testMessage == <<"t","e","s","t">>
S_invalidLogLevel == <<"i","n","v","a","l","i","d"," ","l","o","g"," ","l","e","v","e","l">>
S_invalidPort == <<"i","n","v","a","l","i","d"," ","p","o","r","t"," ","i","n"," ","A","P","P","_","P","O","R","T"," ","e","n","v","i","r","o","n","m","e","n","t"," ","v","a","r","i","a","b","l","e">>
S_errorInitializingLogger == <<"e","r","r","o","r"," ","i","n","i","t","i","a","l","i","z","i","n","g"," ","l","o","g","g","e","r">>
S_colonSpace == <<":"," ">>
S_atoiParsing == <<"s","t","r","c","o","n","v",".","A","t","o","i",":"," ","p","a","r","s","i","n","g"," ">>
S_invalidSyntax == <<":"," ","i","n","v","a","l","i","d"," ","s","y","n","t","a","x">>
S_quote == <<"\"">>
S_service == <<" ","s","e","r","v","i","c","e">>
S_serviceIsReady == <<" ","s","e","r","v","i","c","e"," ","i","s"," ","r","e","a","d","y">>
S_serviceIsAlive == <<" ","s","e","r","v","i","c","e"," ","i","s"," ","a","l","i","v","e">>
S_notFoundBody == <<"4","0","4"," ","p","a","g","e"," ","n","o","t"," ","f","o","u","n","d","\n">>
S_listenError == <<"l","i","s","t","e","n"," ","t","c","p">>
P_root == <<"/">>
P_ready == <<"/","_","r","e","a","d","y">>
P_live == <<"/","_","l","i","v","e">>
P_version == <<"/","_","v","e","r","s","i","o","n">>
P_unknown == <<"/","u","n","k","n","o","w","n">>
P_readySlash == <<"/","_","r","e","a","d","y","/">>
P_readyx == <<"/","_","r","e","a","d","y","x">>

-----------------------------------------------------------------------------
(* Go values: pointers and errors are records with a nil flag.             *)

NilPtr == [nil |-> TRUE]
NilErr == [nil |-> TRUE]
Errorf(msg) == [nil |-> FALSE, msg |-> msg]

-----------------------------------------------------------------------------
(* strings.ToLower, on the ASCII letters.                                  *)

UpperLetters == <<"A","B","C","D","E","F","G","H","I","J","K","L","M",
                  "N","O","P","Q","R","S","T","U","V","W","X","Y","Z">>
LowerLetters == <<"a","b","c","d","e","f","g","h","i","j","k","l","m",
                  "n","o","p","q","r","s","t","u","v","w","x","y","z">>

ToLowerChar(c) ==
    IF \E i \in 1..26 : UpperLetters[i] = c
    THEN LowerLetters[CHOOSE i \in 1..26 : UpperLetters[i] = c]
    ELSE c

ToLower(s) == [i \in 1..Len(s) |-> ToLowerChar(s[i])]

-----------------------------------------------------------------------------
(* pkg/logger: New.                                                        *)

LevelDebug == -4
LevelInfo == 0
LevelWarn == 4
LevelError == 8

\* The logger slog.New(slog.NewJSONHandler(os.Stdout, {Level: logLevel})).
JSONLogger(logLevel) == [nil |-> FALSE, handler |-> "json", level |-> logLevel]

\* The logger the slog package starts with.
InitialDefaultLogger == [nil |-> FALSE, handler |-> "default", level |-> LevelInfo]

\* logger.New without the case folding of its argument.
LoggerNewCaseSensitive(level, default) ==
    CASE level = S_debug ->
           [logger |-> JSONLogger(LevelDebug), err |-> NilErr,
            default |-> JSONLogger(LevelDebug)]
      [] level = S_info ->
           [logger |-> JSONLogger(LevelInfo), err |-> NilErr,
            default |-> JSONLogger(LevelInfo)]
      [] level = S_warn ->
           [logger |-> JSONLogger(LevelWarn), err |-> NilErr,
            default |-> JSONLogger(LevelWarn)]
      [] level = S_error ->
           [logger |-> JSONLogger(LevelError), err |-> NilErr,
            default |-> JSONLogger(LevelError)]
      [] OTHER ->
           [logger |-> NilPtr,
            err |-> Errorf(S_invalidLogLevel \o S_colonSpace \o level),
            default |-> default]

\* logger.New falling back to the info level instead of failing.
LoggerNewDefaultsToInfo(level, default) ==
    LET lowered == ToLower(level) IN
    CASE lowered = S_debug ->
           [logger |-> JSONLogger(LevelDebug), err |-> NilErr,
            default |-> JSONLogger(LevelDebug)]
      [] lowered = S_warn ->
           [logger |-> JSONLogger(LevelWarn), err |-> NilErr,
            default |-> JSONLogger(LevelWarn)]
      [] lowered = S_error ->
           [logger |-> JSONLogger(LevelError), err |-> NilErr,
            default |-> JSONLogger(LevelError)]
      [] OTHER ->
           [logger |-> JSONLogger(LevelInfo), err |-> NilErr,
            default |-> JSONLogger(LevelInfo)]

\* logger.New reporting its argument as passed, before the case folding.
LoggerNewErrorKeepsCase(level, default) ==
    LET lowered == ToLower(level) IN
    CASE lowered = S_debug ->
           [logger |-> JSONLogger(LevelDebug), err |-> NilErr,
            default |-> JSONLogger(LevelDebug)]
      [] lowered = S_info ->
           [logger |-> JSONLogger(LevelInfo), err |-> NilErr,
            default |-> JSONLogger(LevelInfo)]
      [] lowered = S_warn ->
           [logger |-> JSONLogger(LevelWarn), err |-> NilErr,
            default |-> JSONLogger(LevelWarn)]
      [] lowered = S_error ->
           [logger |-> JSONLogger(LevelError), err |-> NilErr,
            default |-> JSONLogger(LevelError)]
      [] OTHER ->
           [logger |-> NilPtr,
            err |-> Errorf(S_invalidLogLevel \o S_colonSpace \o level),
            default |-> default]

\* logger.New without the call of slog.SetDefault.
LoggerNewNoSetDefault(level, default) ==
    LET lowered == ToLower(level) IN
    CASE lowered = S_debug ->
           [logger |-> JSONLogger(LevelDebug), err |-> NilErr,
            default |-> default]
      [] lowered = S_info ->
           [logger |-> JSONLogger(LevelInfo), err |-> NilErr,
            default |-> default]
      [] lowered = S_warn ->
           [logger |-> JSONLogger(LevelWarn), err |-> NilErr,
            default |-> default]
      [] lowered = S_error ->
           [logger |-> JSONLogger(LevelError), err |-> NilErr,
            default |-> default]
      [] OTHER ->
           [logger |-> NilPtr,
            err |-> Errorf(S_invalidLogLevel \o S_colonSpace \o lowered),
            default |-> default]

\* logger.New(level): the returned logger, the returned error and the
\* process-wide default logger afterwards, given the one before.
LoggerNew(level, default) ==
    LET lowered == ToLower(level) IN
    CASE lowered = S_debug ->
           [logger |-> JSONLogger(LevelDebug), err |-> NilErr,
            default |-> JSONLogger(LevelDebug)]
      [] lowered = S_info ->
           [logger |-> JSONLogger(LevelInfo), err |-> NilErr,
            default |-> JSONLogger(LevelInfo)]
      [] lowered = S_warn ->
           [logger |-> JSONLogger(LevelWarn), err |-> NilErr,
            default |-> JSONLogger(LevelWarn)]
      [] lowered = S_error ->
           [logger |-> JSONLogger(LevelError), err |-> NilErr,
            default |-> JSONLogger(LevelError)]
      [] OTHER ->
           [logger |-> NilPtr,
            err |-> Errorf(S_invalidLogLevel \o S_colonSpace \o lowered),
            default |-> default]

-----------------------------------------------------------------------------
(* The process environment: os.Getenv, and cmp.Or on strings.              *)

Unset == [set |-> FALSE, val |-> <<>>]
SetTo(s) == [set |-> TRUE, val |-> s]

\* os.Getenv: the value, or the empty string when the variable is not set.
Getenv(key) == IF env[key].set THEN env[key].val ELSE <<>>

\* cmp.Or of two strings: the first that is not the zero value.
CmpOr(a, b) == IF a # <<>> THEN a ELSE b

-----------------------------------------------------------------------------
(* strconv.Atoi, as config.WithDefaultPort calls it.                       *)

Digits == <<"0","1","2","3","4","5","6","7","8","9">>

IsDigit(c) == \E i \in 1..10 : Digits[i] = c

DigitVal(c) == (CHOOSE i \in 1..10 : Digits[i] = c) - 1

AtoiSyntaxError(s) ==
    Errorf(S_atoiParsing \o S_quote \o s \o S_quote \o S_invalidSyntax)

\* The digit loop: n = n*10 + digit, giving up at the first non-digit.
RECURSIVE AtoiLoop(_, _, _)
AtoiLoop(s, i, n) ==
    IF i > Len(s) THEN [ok |-> TRUE, n |-> n]
    ELSE IF ~IsDigit(s[i]) THEN [ok |-> FALSE, n |-> 0]
    ELSE AtoiLoop(s, i + 1, n * 10 + DigitVal(s[i]))

Atoi(s) ==
    IF Len(s) = 0 THEN [n |-> 0, err |-> AtoiSyntaxError(s)]
    ELSE LET signed == s[1] = "-" \/ s[1] = "+"
             body == IF signed THEN Tail(s) ELSE s
         IN IF Len(body) < 1 THEN [n |-> 0, err |-> AtoiSyntaxError(s)]
            ELSE LET r == AtoiLoop(body, 1, 0) IN
                 IF ~r.ok THEN [n |-> 0, err |-> AtoiSyntaxError(s)]
                 ELSE [n |-> IF s[1] = "-" THEN 0 - r.n ELSE r.n, err |-> NilErr]

-----------------------------------------------------------------------------
(* pkg/config: Config, the options, New.                                   *)

Config(port, logLevel, environment) ==
    [nil |-> FALSE, Port |-> port, LogLevel |-> logLevel,
     Environment |-> environment]

\* The options a caller can build.  withTestLogLevel and withTestEnv are
\* the options config_test.go defines; withFailure is a caller's option
\* that returns an error of its own and leaves the configuration alone.
WithDefaultPort(port) == [kind |-> "WithDefaultPort", port |-> port]
withTestLogLevel(level) == [kind |-> "withTestLogLevel", level |-> level]
withTestEnv(e) == [kind |-> "withTestEnv", env |-> e]
withFailure(msg) == [kind |-> "withFailure", msg |-> msg]

\* WithDefaultPort letting the default overwrite the port of the environment.
ApplyWithDefaultPortDefaultLast(port, c) ==
    LET portFromEnvVariable == Getenv("APP_PORT") IN
    IF portFromEnvVariable # <<>>
    THEN LET parsed == Atoi(portFromEnvVariable) IN
         IF ~parsed.err.nil
         THEN [c |-> [c EXCEPT !.Port = port],
               err |-> Errorf(S_invalidPort \o S_colonSpace \o parsed.err.msg)]
         ELSE [c |-> [c EXCEPT !.Port = port], err |-> NilErr]
    ELSE [c |-> [c EXCEPT !.Port = port], err |-> NilErr]

\* The body of the option WithDefaultPort(port), applied to *c.
ApplyWithDefaultPort(port, c) ==
    LET c1 == [c EXCEPT !.Port = port]
        portFromEnvVariable == Getenv("APP_PORT")
    IN IF portFromEnvVariable # <<>>
       THEN LET parsed == Atoi(portFromEnvVariable) IN
            IF ~parsed.err.nil
            THEN [c |-> c1,
                  err |-> Errorf(S_invalidPort \o S_colonSpace \o parsed.err.msg)]
            ELSE [c |-> [c1 EXCEPT !.Port = parsed.n], err |-> NilErr]
       ELSE [c |-> c1, err |-> NilErr]

\* opt(cfg): the configuration after the option and the option's error.
ApplyConfigOption(opt, c) ==
    CASE opt.kind = "WithDefaultPort" -> ApplyWithDefaultPort(opt.port, c)
      [] opt.kind = "withTestLogLevel" ->
           [c |-> [c EXCEPT !.LogLevel = opt.level], err |-> NilErr]
      [] opt.kind = "withTestEnv" ->
           [c |-> [c EXCEPT !.Environment = opt.env], err |-> NilErr]
      [] opt.kind = "withFailure" -> [c |-> c, err |-> Errorf(opt.msg)]

\* The loop of config.New returning the configuration built so far next to
\* the error.
RECURSIVE ConfigOptionLoopKeepsCfg(_, _, _)
ConfigOptionLoopKeepsCfg(c, opts, i) ==
    IF i > Len(opts) THEN [cfg |-> c, err |-> NilErr, ran |-> <<>>]
    ELSE LET r == ApplyConfigOption(opts[i], c) IN
         IF ~r.err.nil THEN [cfg |-> r.c, err |-> r.err, ran |-> <<i>>]
         ELSE LET rest == ConfigOptionLoopKeepsCfg(r.c, opts, i + 1) IN
              [rest EXCEPT !.ran = <<i>> \o @]

\* The loop of config.New remembering the first error and going on with
\* the options after it.
RECURSIVE ConfigOptionLoopRunsAll(_, _, _)
ConfigOptionLoopRunsAll(c, opts, i) ==
    IF i > Len(opts) THEN [cfg |-> c, err |-> NilErr, ran |-> <<>>]
    ELSE LET r == ApplyConfigOption(opts[i], c)
             rest == ConfigOptionLoopRunsAll(r.c, opts, i + 1)
         IN IF ~r.err.nil
            THEN [cfg |-> NilPtr, err |-> r.err, ran |-> <<i>> \o rest.ran]
            ELSE [rest EXCEPT !.ran = <<i>> \o @]

\* The loop of config.New over opts[i..], returning at the first error:
\* the configuration, the error, and the positions of the options that ran.
RECURSIVE ConfigOptionLoop(_, _, _)
ConfigOptionLoop(c, opts, i) ==
    IF i > Len(opts) THEN [cfg |-> c, err |-> NilErr, ran |-> <<>>]
    ELSE LET r == ApplyConfigOption(opts[i], c) IN
         IF ~r.err.nil THEN [cfg |-> NilPtr, err |-> r.err, ran |-> <<i>>]
         ELSE LET rest == ConfigOptionLoop(r.c, opts, i + 1) IN
              [rest EXCEPT !.ran = <<i>> \o @]

\* config.New reading the port of the environment without any option.
ConfigNewReadsPort(opts) ==
    LET parsed == Atoi(Getenv("APP_PORT")) IN
    ConfigOptionLoop(Config(parsed.n,
                            CmpOr(Getenv("APP_LOG_LEVEL"), S_info),
                            CmpOr(Getenv("APP_ENV"), S_local)),
                     opts, 1)

\* config.New(opts...).
ConfigNew(opts) ==
    ConfigOptionLoop(Config(0,
                            CmpOr(Getenv("APP_LOG_LEVEL"), S_info),
                            CmpOr(Getenv("APP_ENV"), S_local)),
                     opts, 1)

-----------------------------------------------------------------------------
(* log/slog: what a logger writes to standard output.                      *)

\* slog.Level.String() of the four named levels.
LevelName(level) ==
    CASE level = LevelDebug -> S_DEBUG
      [] level = LevelInfo -> S_INFO
      [] level = LevelWarn -> S_WARN
      [] level = LevelError -> S_ERROR

\* A handler that drops a record at its own level too.
LogStrictlyAbove(logger, level, msg, attrs, out) ==
    IF level > logger.level
    THEN Append(out, [level |-> LevelName(level), msg |-> msg, attrs |-> attrs])
    ELSE out

\* logger.Debug/Info/Warn/Error(msg, attrs...): standard output after the
\* call.  The handler drops a record below its HandlerOptions.Level.
Log(logger, level, msg, attrs, out) ==
    IF level >= logger.level
    THEN Append(out, [level |-> LevelName(level), msg |-> msg, attrs |-> attrs])
    ELSE out

-----------------------------------------------------------------------------
(* pkg/version: Version.                                                   *)

\* Version() treating the version of a development build as unavailable.
VersionDevelIsUnknown(info) ==
    IF info.ok /\ info.mainVersion # S_devel THEN info.mainVersion
    ELSE S_unknown

\* Version(), given what readBuildInfo returns.
Version(info) == IF info.ok THEN info.mainVersion ELSE S_unknown

-----------------------------------------------------------------------------
(* pkg/service: Service, the options, NewWithName.                         *)

WithEnvironment(e) == [kind |-> "WithEnvironment", env |-> e]
WithLogLevel(level) == [kind |-> "WithLogLevel", level |-> level]
WithPort(port) == [kind |-> "WithPort", port |-> port]
WithVersion(version) == [kind |-> "WithVersion", version |-> version]

\* WithLogLevel storing what logger.New returned without looking at its
\* error.
ApplyWithLogLevelUnchecked(level, s, default) ==
    LET s1 == [s EXCEPT !.LogLevel = level] IN
    IF ~s1.Log.nil
    THEN LET r == LoggerNew(level, default) IN
         [s |-> [s1 EXCEPT !.Log = r.logger], default |-> r.default]
    ELSE [s |-> s1, default |-> default]

\* The body of the option WithLogLevel(level), applied to *s: the service
\* and the process-wide default logger afterwards.
ApplyWithLogLevel(level, s, default) ==
    LET s1 == [s EXCEPT !.LogLevel = level] IN
    IF ~s1.Log.nil
    THEN LET r == LoggerNew(level, default) IN
         IF r.err.nil
         THEN [s |-> [s1 EXCEPT !.Log = r.logger], default |-> r.default]
         ELSE [s |-> s1, default |-> r.default]
    ELSE [s |-> s1, default |-> default]

\* opt(svc).
ApplyServiceOption(opt, s, default) ==
    CASE opt.kind = "WithEnvironment" ->
           [s |-> [s EXCEPT !.Environment = opt.env], default |-> default]
      [] opt.kind = "WithLogLevel" -> ApplyWithLogLevel(opt.level, s, default)
      [] opt.kind = "WithPort" ->
           [s |-> [s EXCEPT !.Port = opt.port], default |-> default]
      [] opt.kind = "WithVersion" ->
           [s |-> [s EXCEPT !.Version = opt.version], default |-> default]

\* The loop of NewWithName taking the options from the last to the first.
RECURSIVE ServiceOptionLoopReversed(_, _, _, _)
ServiceOptionLoopReversed(s, default, opts, i) ==
    IF i > Len(opts) THEN [svc |-> s, err |-> NilErr, default |-> default]
    ELSE LET r == ApplyServiceOption(opts[Len(opts) + 1 - i], s, default) IN
         ServiceOptionLoopReversed(r.s, r.default, opts, i + 1)

\* The loop of NewWithName over opts[i..].
RECURSIVE ServiceOptionLoop(_, _, _, _)
ServiceOptionLoop(s, default, opts, i) ==
    IF i > Len(opts) THEN [svc |-> s, err |-> NilErr, default |-> default]
    ELSE LET r == ApplyServiceOption(opts[i], s, default) IN
         ServiceOptionLoop(r.s, r.default, opts, i + 1)

\* service.NewWithName(name, opts...).
NewWithName(name, opts, default) ==
    LET svc0 == [nil |-> FALSE, Environment |-> <<>>, LogLevel |-> S_info,
                 Log |-> NilPtr, Name |-> name, Port |-> 8000,
                 Version |-> <<>>]
        r == LoggerNew(svc0.LogLevel, default)
    IN IF ~r.err.nil
       THEN [svc |-> NilPtr,
             err |-> Errorf(S_errorInitializingLogger \o S_colonSpace \o r.err.msg),
             default |-> r.default]
       ELSE ServiceOptionLoop([svc0 EXCEPT !.Log = r.logger], r.default, opts, 1)

-----------------------------------------------------------------------------
(* pkg/service: Run, and net/http's default ServeMux.                      *)

\* The four handlers Run registers with http.HandleFunc.
RunPatterns == {P_root, P_ready, P_live, P_version}

\* The body a handler of Run writes for its pattern.
HandlerBody(pattern, s) ==
    CASE pattern = P_root -> s.Name \o S_service
      [] pattern = P_ready -> s.Name \o S_serviceIsReady
      [] pattern = P_live -> s.Name \o S_serviceIsAlive
      [] pattern = P_version -> s.Version

IsPrefix(p, t) == Len(p) <= Len(t) /\ SubSeq(t, 1, Len(p)) = p

\* ServeMux matching: a pattern that ends in a slash names a subtree and
\* matches every path it is a prefix of, any other pattern matches only
\* itself; the longest matching pattern wins.
Matches(pattern, path) ==
    IF pattern[Len(pattern)] = "/" THEN IsPrefix(pattern, path)
    ELSE pattern = path

\* The response of the server to a GET of path: the matching handler's
\* body with status 200, or http.NotFound when no pattern matches.
ServeHTTP(patterns, s, path) ==
    LET matching == {p \in patterns : Matches(p, path)} IN
    IF matching = {}
    THEN [status |-> 404, body |-> S_notFoundBody]
    ELSE LET best == CHOOSE p \in matching :
                         \A q \in matching : Len(q) <= Len(p)
         IN [status |-> 200, body |-> HandlerBody(best, s)]

\* The startup record Run logs through s.Log.Info.
RunLog(s, out) ==
    Log(s.Log, LevelInfo, S_starting,
        <<s.Name, s.Port, s.Version, s.Environment, s.LogLevel>>, out)

\* http.ListenAndServe(":<port>") can only bind a port in 0..65535.
PortBindable(port) == port >= 0 /\ port <= 65535

-----------------------------------------------------------------------------
(* services/shipping/main.go.                                              *)

serviceName == S_shipping
servicePort == 8003

-----------------------------------------------------------------------------
(* The inputs the model draws from.                                        *)

\* The programs of the repository: the service binary and the test
\* binaries of the three packages, which call the packages directly.
Programs == {"main", "config_test", "logger_test", "service_test"}

UpperOf(c) ==
    IF \E i \in 1..26 : LowerLetters[i] = c
    THEN UpperLetters[CHOOSE i \in 1..26 : LowerLetters[i] = c]
    ELSE c

\* Every way of writing a lower-case name with some letters in capitals.
RECURSIVE CaseVariants(_)
CaseVariants(name) ==
    IF name = <<>> THEN {<<>>}
    ELSE {<<c>> \o rest : c \in {Head(name), UpperOf(Head(name))},
                          rest \in CaseVariants(Tail(name))}

LevelNames == {S_debug, S_info, S_warn, S_error}

SupportedLevelInputs == UNION {CaseVariants(name) : name \in LevelNames}

UnsupportedLevelInputs ==
    {<<>>, S_trace, S_TRACE, S_Trace, S_critical, S_warning, S_inf,
     S_unknown, <<" ","i","n","f","o">>, <<"W","a","r","n","s">>}

LevelInputs == SupportedLevelInputs \cup UnsupportedLevelInputs

\* The level a name in lower case stands for.
LevelOf(name) ==
    CASE name = S_debug -> LevelDebug
      [] name = S_info -> LevelInfo
      [] name = S_warn -> LevelWarn
      [] name = S_error -> LevelError

Levels == {LevelDebug, LevelInfo, LevelWarn, LevelError}

\* Strings that are decimal integers, each with the integer it denotes.
IntegerStrings ==
    {[s |-> <<"0">>, n |-> 0],
     [s |-> <<"9","0","0","0">>, n |-> 9000],
     [s |-> <<"-","1">>, n |-> -1],
     [s |-> <<"+","7">>, n |-> 7],
     [s |-> <<"0","0","8","0">>, n |-> 80],
     [s |-> <<"9","9","9","9","9">>, n |-> 99999],
     [s |-> <<"8","0","0","3">>, n |-> 8003]}

\* Non-empty strings that are not decimal integers.
NonIntegerStrings ==
    {<<"n","o","t","-","a","-","p","o","r","t">>, <<"8","0","a">>,
     <<"a","8","0">>, <<"-">>, <<"+">>, <<" ","8","0">>, <<"8","0"," ">>,
     <<"8",".","0">>, <<"0","x","5","0">>, <<"-","-","1">>, <<"1","_","0">>}

PortValues ==
    {Unset, SetTo(<<>>)} \cup {SetTo(i.s) : i \in IntegerStrings}
                         \cup {SetTo(t) : t \in NonIntegerStrings}

LogLevelValues ==
    {Unset, SetTo(<<>>), SetTo(S_debug), SetTo(S_WARN), SetTo(S_trace),
     SetTo(S_TRACE)}

EnvironmentValues == {Unset, SetTo(<<>>), SetTo(S_production)}

Environments ==
    [APP_ENV : EnvironmentValues, APP_LOG_LEVEL : LogLevelValues,
     APP_PORT : PortValues]

EmptyEnvironment ==
    [APP_ENV |-> Unset, APP_LOG_LEVEL |-> Unset, APP_PORT |-> Unset]

BuildInfos ==
    {[ok |-> TRUE, mainVersion |-> S_semver],
     [ok |-> TRUE, mainVersion |-> S_devel],
     [ok |-> FALSE, mainVersion |-> <<>>]}

DefaultPorts == {-1, 0, 8003, 99999}

ConfigOptions ==
    {WithDefaultPort(port) : port \in DefaultPorts}
        \cup {withTestLogLevel(S_trace), withTestEnv(S_staging),
              withFailure(S_testMessage)}

ServiceOptions ==
    {WithEnvironment(S_production), WithPort(8003), WithPort(-1),
     WithVersion(S_testVersion)}
        \cup {WithLogLevel(level) : level \in {S_debug, S_WARN, S_trace}}

\* The sequences over a set of options, no longer than MaxOpts.
OptionLists(options) ==
    UNION {[1..n -> options] : n \in 0..MaxOpts}

RequestPaths ==
    {P_root, P_ready, P_live, P_version, P_unknown, P_readySlash, P_readyx}

Messages == {S_testMessage}

-----------------------------------------------------------------------------
(* The state machine.                                                      *)

NoResponse == [status |-> 0, body |-> <<>>]

Init ==
    /\ program \in Programs
    /\ env \in (IF program \in {"main", "config_test"}
                THEN Environments ELSE {EmptyEnvironment})
    /\ buildInfo \in (IF program = "main" THEN BuildInfos
                      ELSE {[ok |-> FALSE, mainVersion |-> <<>>]})
    /\ pc = IF program = "main" THEN "start" ELSE "test"
    /\ serviceVersion = <<>>
    /\ cfg = NilPtr
    /\ svc = NilPtr
    /\ log = NilPtr
    /\ err = NilErr
    /\ call = [op |-> "none"]
    /\ defaultLogger = InitialDefaultLogger
    /\ stdout = <<>>
    /\ mux = {}
    /\ response = NoResponse

\* A test calls logger.New(level).
TestLoggerNew(level) ==
    /\ program = "logger_test"
    /\ LET r == LoggerNew(level, defaultLogger) IN
       /\ log' = r.logger
       /\ err' = r.err
       /\ defaultLogger' = r.default
    /\ call' = [op |-> "logger.New", level |-> level]
    /\ UNCHANGED <<program, env, buildInfo, pc, serviceVersion, cfg, svc,
                   stdout, mux, response>>

\* A test logs msg at level through the logger it holds.
TestLog(level, msg) ==
    /\ program = "logger_test"
    /\ ~log.nil
    /\ Len(stdout) < MaxStdout
    /\ stdout' = Log(log, level, msg, <<>>, stdout)
    /\ call' = [op |-> "Log", level |-> level, msg |-> msg,
                before |-> Len(stdout)]
    /\ UNCHANGED <<program, env, buildInfo, pc, serviceVersion, cfg, svc,
                   log, err, defaultLogger, mux, response>>

\* A test calls config.New(opts...), once in the environment it runs in.
TestConfigNew(opts) ==
    /\ program = "config_test"
    /\ call.op = "none"
    /\ LET r == ConfigNew(opts) IN
       /\ cfg' = r.cfg
       /\ err' = r.err
       /\ call' = [op |-> "config.New", opts |-> opts, ran |-> r.ran]
    /\ UNCHANGED <<program, env, buildInfo, pc, serviceVersion, svc, log,
                   defaultLogger, stdout, mux, response>>

\* A test calls service.NewWithName(name, opts...), any number of times
\* before it runs a service.
TestNewWithName(name, opts) ==
    /\ program = "service_test"
    /\ pc = "test"
    /\ mux = {}
    /\ LET r == NewWithName(name, opts, defaultLogger) IN
       /\ svc' = r.svc
       /\ err' = r.err
       /\ defaultLogger' = r.default
    /\ call' = [op |-> "NewWithName", name |-> name, opts |-> opts]
    /\ UNCHANGED <<program, env, buildInfo, pc, serviceVersion, cfg, log,
                   stdout, mux, response>>

\* svc.Run(): the startup record, the four registrations (a second
\* registration of a pattern panics), then http.ListenAndServe, which
\* either serves or returns an error; failPc is where the caller is then.
Run(outcome, failPc) ==
    /\ ~svc.nil
    /\ Len(stdout) < MaxStdout
    /\ stdout' = RunLog(svc, stdout)
    /\ call' = [op |-> "Run"]
    /\ IF mux \cap RunPatterns # {}
       THEN pc' = "panic" /\ UNCHANGED <<mux, err>>
       ELSE /\ mux' = mux \cup RunPatterns
            /\ IF outcome = "serve" /\ PortBindable(svc.Port)
               THEN pc' = "serving" /\ UNCHANGED err
               ELSE pc' = failPc /\ err' = Errorf(S_listenError)
    /\ UNCHANGED <<program, env, buildInfo, serviceVersion, cfg, svc, log,
                   defaultLogger, response>>

\* A test calls Run on the service it built.
TestRun(outcome) ==
    /\ program = "service_test"
    /\ pc = "test"
    /\ Run(outcome, "test")

\* main: serviceVersion := version.Version().
MainVersion ==
    /\ program = "main"
    /\ pc = "start"
    /\ serviceVersion' = Version(buildInfo)
    /\ pc' = "config"
    /\ call' = [op |-> "version.Version"]
    /\ UNCHANGED <<program, env, buildInfo, cfg, svc, log, err,
                   defaultLogger, stdout, mux, response>>

\* main: cfg, err := config.New(config.WithDefaultPort(servicePort)),
\* and the panic on an error.
MainConfig ==
    /\ program = "main"
    /\ pc = "config"
    /\ LET opts == <<WithDefaultPort(servicePort)>>
           r == ConfigNew(opts)
       IN /\ cfg' = r.cfg
          /\ err' = r.err
          /\ pc' = IF r.err.nil THEN "service" ELSE "panic"
          /\ call' = [op |-> "config.New", opts |-> opts, ran |-> r.ran]
    /\ UNCHANGED <<program, env, buildInfo, serviceVersion, svc, log,
                   defaultLogger, stdout, mux, response>>

\* main: svc, err := service.NewWithName(...), and the panic on an error.
MainService ==
    /\ program = "main"
    /\ pc = "service"
    /\ LET opts == <<WithEnvironment(cfg.Environment), WithPort(cfg.Port),
                     WithLogLevel(cfg.LogLevel), WithVersion(serviceVersion)>>
           r == NewWithName(serviceName, opts, defaultLogger)
       IN /\ svc' = r.svc
          /\ err' = r.err
          /\ defaultLogger' = r.default
          /\ pc' = IF r.err.nil THEN "run" ELSE "panic"
          /\ call' = [op |-> "NewWithName", name |-> serviceName, opts |-> opts]
    /\ UNCHANGED <<program, env, buildInfo, serviceVersion, cfg, log, stdout,
                   mux, response>>

\* main: err = svc.Run(), and the panic on an error.
MainRun(outcome) ==
    /\ program = "main"
    /\ pc = "run"
    /\ Run(outcome, "panic")

\* The server answers a GET of path.
Request(path) ==
    /\ pc = "serving"
    /\ response' = ServeHTTP(mux, svc, path)
    /\ call' = [op |-> "GET", path |-> path]
    /\ UNCHANGED <<program, env, buildInfo, pc, serviceVersion, cfg, svc,
                   log, err, defaultLogger, stdout, mux>>

\* The listener of a serving service terminates: Run returns its error.
ListenerFails ==
    /\ pc = "serving"
    /\ err' = Errorf(S_listenError)
    /\ pc' = IF program = "main" THEN "panic" ELSE "test"
    /\ call' = [op |-> "Run"]
    /\ UNCHANGED <<program, env, buildInfo, serviceVersion, cfg, svc, log,
                   defaultLogger, stdout, mux, response>>

Next ==
    \/ \E level \in LevelInputs : TestLoggerNew(level)
    \/ \E level \in Levels, msg \in Messages : TestLog(level, msg)
    \/ \E opts \in OptionLists(ConfigOptions) : TestConfigNew(opts)
    \/ \E opts \in OptionLists(ServiceOptions) : TestNewWithName(S_order, opts)
    \/ \E outcome \in {"serve", "fail"} : TestRun(outcome)
    \/ MainVersion
    \/ MainConfig
    \/ MainService
    \/ \E outcome \in {"serve", "fail"} : MainRun(outcome)
    \/ \E path \in RequestPaths : Request(path)
    \/ ListenerFails

Spec == Init /\ [][Next]_vars

-----------------------------------------------------------------------------
(* Helpers of the properties.                                              *)

\* sub occurs in s as a contiguous substring.
Contains(s, sub) ==
    \E i \in 0..(Len(s) - Len(sub)) : SubSeq(s, i + 1, i + Len(sub)) = sub

UpperCase(s) == [i \in 1..Len(s) |-> UpperOf(s[i])]

\* The most recent call is config.New with the options opts.
ConfigNewCalled == call.op = "config.New"

\* The most recent call is config.New(WithDefaultPort(P)) for some P.
DefaultPortOnly ==
    /\ ConfigNewCalled
    /\ Len(call.opts) = 1
    /\ call.opts[1].kind = "WithDefaultPort"

\* The value of a variable of the environment, or fallback when the
\* variable is not set.
ValueOrWhenAbsent(key, fallback) ==
    IF env[key].set THEN env[key].val ELSE fallback

\* The value of a variable of the environment, or fallback when the
\* variable is not set or is set to the empty string.
ValueOrWhenAbsentOrEmpty(key, fallback) ==
    IF env[key].set /\ env[key].val # <<>> THEN env[key].val ELSE fallback

\* The response the HTTP table of the specification gives for a path.
TableResponse(path, s) ==
    CASE path = P_root -> [status |-> 200, body |-> s.Name \o S_service]
      [] path = P_ready -> [status |-> 200, body |-> s.Name \o S_serviceIsReady]
      [] path = P_live -> [status |-> 200, body |-> s.Name \o S_serviceIsAlive]
      [] path = P_version -> [status |-> 200, body |-> s.Version]
      [] OTHER -> [status |-> 404, body |-> S_notFoundBody]

-----------------------------------------------------------------------------
(* C1 *)

\* C1: while a service is serving, the response to a request is the one
\* the table gives for its path: the fixed body with status 200 on the four
\* routes, and the standard 404 not-found response on every other path.
C1_ResponseByPath ==
    (pc = "serving" /\ call.op = "GET")
        => response = TableResponse(call.path, svc)

-----------------------------------------------------------------------------
(* C2 *)

\* APP_LOG_LEVEL holds a name that is no case variant of a level name.
BadLogLevelEnv ==
    /\ Getenv("APP_LOG_LEVEL") # <<>>
    /\ Getenv("APP_LOG_LEVEL") \notin SupportedLevelInputs

\* APP_PORT is non-empty and not an integer.
BadPortEnv == Getenv("APP_PORT") \in NonIntegerStrings

\* C2: in the service entry point, an environment with a bad log level or
\* a bad port aborts the process before it serves: main never reaches the
\* serving state, and a listener failure ends in the panic.
C2_ConstructionFailureAborts ==
    /\ (program = "main" /\ (BadLogLevelEnv \/ BadPortEnv))
           => pc \notin {"run", "serving"}
    /\ (program = "main" /\ call.op = "Run" /\ ~err.nil) => pc = "panic"

-----------------------------------------------------------------------------
(* C3 *)

\* C3: config.New(WithDefaultPort(P)) succeeds with Port = P when APP_PORT
\* is unset or empty, and with Port = N when APP_PORT is a string that
\* denotes the integer N.
C3_DefaultPortOrEnv ==
    DefaultPortOnly =>
        /\ (env.APP_PORT \in {Unset, SetTo(<<>>)}) =>
               (err.nil /\ ~cfg.nil /\ cfg.Port = call.opts[1].port)
        /\ \A i \in IntegerStrings :
               (env.APP_PORT = SetTo(i.s)) =>
                   (err.nil /\ ~cfg.nil /\ cfg.Port = i.n)

\* The environment port "0" has replaced the default 8003.
C3_Witness ==
    /\ ConfigNewCalled
    /\ call.opts = <<WithDefaultPort(8003)>>
    /\ env.APP_PORT = SetTo(<<"0">>)
    /\ ~cfg.nil
    /\ cfg.Port = 0

-----------------------------------------------------------------------------
(* C4 *)

\* C4: when APP_PORT is non-empty and not an integer,
\* config.New(WithDefaultPort(P)) returns an error and a nil configuration.
C4_InvalidPortFails ==
    (DefaultPortOnly /\ BadPortEnv) => (~err.nil /\ cfg.nil)

\* config.New(WithDefaultPort(99999)) has failed on APP_PORT = "80a".
C4_Witness ==
    /\ ConfigNewCalled
    /\ call.opts = <<WithDefaultPort(99999)>>
    /\ env.APP_PORT = SetTo(<<"8","0","a">>)
    /\ ~err.nil
    /\ cfg.nil

-----------------------------------------------------------------------------
(* C5 *)

\* C5 as stated: config.New() succeeds, Environment is the value of
\* APP_ENV or 'local' when the variable is absent, LogLevel the value of
\* APP_LOG_LEVEL or 'info' when it is absent, and Port is 0.
C5_DefaultsWhenAbsent ==
    (ConfigNewCalled /\ call.opts = <<>>) =>
        /\ err.nil
        /\ ~cfg.nil
        /\ cfg.Environment = ValueOrWhenAbsent("APP_ENV", S_local)
        /\ cfg.LogLevel = ValueOrWhenAbsent("APP_LOG_LEVEL", S_info)
        /\ cfg.Port = 0

\* C5 amended: config.New() succeeds, Environment is the value of APP_ENV
\* or 'local' when the variable is absent or empty, LogLevel the value of
\* APP_LOG_LEVEL or 'info' when it is absent or empty, and Port is 0
\* whatever APP_PORT is.
C5_DefaultsWhenAbsentOrEmpty ==
    (ConfigNewCalled /\ call.opts = <<>>) =>
        /\ err.nil
        /\ ~cfg.nil
        /\ cfg.Environment = ValueOrWhenAbsentOrEmpty("APP_ENV", S_local)
        /\ cfg.LogLevel = ValueOrWhenAbsentOrEmpty("APP_LOG_LEVEL", S_info)
        /\ cfg.Port = 0

\* config.New() has run with APP_ENV set to the empty string, a log level
\* and a valid port in the environment.
C5_Witness ==
    /\ ConfigNewCalled
    /\ call.opts = <<>>
    /\ env.APP_ENV = SetTo(<<>>)
    /\ env.APP_LOG_LEVEL = SetTo(S_debug)
    /\ env.APP_PORT = SetTo(<<"9","0","0","0">>)
    /\ ~cfg.nil
    /\ cfg.Environment = S_local
    /\ cfg.LogLevel = S_debug

-----------------------------------------------------------------------------
(* C6 *)

\* C6: for a level name written in any letter-casing, logger.New succeeds,
\* returns a non-nil logger, and the logger's threshold is the level the
\* name stands for.
C6_SupportedLevels ==
    (call.op = "logger.New") =>
        \A name \in LevelNames :
            (call.level \in CaseVariants(name)) =>
                (err.nil /\ ~log.nil /\ log.level = LevelOf(name))

\* logger.New("dEbUg") has returned a logger at the debug level.
C6_Witness ==
    /\ call.op = "logger.New"
    /\ call.level = <<"d","E","b","U","g">>
    /\ ~log.nil
    /\ log.level = LevelDebug

-----------------------------------------------------------------------------
(* C7 *)

\* C7: for a string that is no case variant of a level name, the empty
\* string included, logger.New returns no logger and an error whose
\* message contains 'invalid log level'.
C7_UnsupportedLevels ==
    (call.op = "logger.New" /\ call.level \notin SupportedLevelInputs) =>
        (log.nil /\ ~err.nil /\ Contains(err.msg, S_invalidLogLevel))

\* logger.New("") has failed.
C7_Witness ==
    /\ call.op = "logger.New"
    /\ call.level = <<>>
    /\ log.nil
    /\ ~err.nil

-----------------------------------------------------------------------------
(* C8 *)

\* C8 as stated: the error of a rejected level name contains the name
\* exactly as the caller passed it.
C8_ErrorNamesInputAsPassed ==
    (call.op = "logger.New" /\ ~err.nil) => Contains(err.msg, call.level)

\* C8 amended: the error of a rejected level name contains the name in
\* lower case; a name passed with a capital letter does not occur in it
\* as passed.
C8_ErrorNamesLoweredInput ==
    (call.op = "logger.New" /\ ~err.nil) =>
        /\ Contains(err.msg, ToLower(call.level))
        /\ (call.level # ToLower(call.level)) => ~Contains(err.msg, call.level)

\* logger.New("TRACE") has failed with an error that names "trace".
C8_Witness ==
    /\ call.op = "logger.New"
    /\ call.level = S_TRACE
    /\ ~err.nil
    /\ Contains(err.msg, S_trace)

-----------------------------------------------------------------------------
(* C9 *)

\* The name of a level in capitals.
UpperLevelName(level) ==
    UpperCase(CHOOSE name \in LevelNames : LevelOf(name) = level)

\* C9: a call at a level at or above the logger's level adds exactly one
\* record, with the level name in capitals and the message passed; a call
\* below the logger's level adds nothing.
C9_LevelFilter ==
    (call.op = "Log") =>
        IF call.level >= log.level
        THEN /\ Len(stdout) = call.before + 1
             /\ stdout[Len(stdout)].level = UpperLevelName(call.level)
             /\ stdout[Len(stdout)].msg = call.msg
        ELSE Len(stdout) = call.before

\* A warn logger has emitted the record of a Warn call and then nothing
\* for an Info call.
C9_Witness ==
    /\ call.op = "Log"
    /\ ~log.nil
    /\ log.level = LevelWarn
    /\ call.level = LevelInfo
    /\ call.before = 1
    /\ stdout = <<[level |-> S_WARN, msg |-> S_testMessage, attrs |-> <<>>]>>

-----------------------------------------------------------------------------
(* C10 *)

\* C10: a service NewWithName has returned has a logger whose threshold
\* is the level named by its LogLevel in lower case.
C10_LogLevelConsistent ==
    (call.op = "NewWithName" /\ ~svc.nil) =>
        /\ ToLower(svc.LogLevel) \in LevelNames
        /\ svc.Log.level = LevelOf(ToLower(svc.LogLevel))

-----------------------------------------------------------------------------
(* C11 *)

\* The positions of the options of one kind in an option list.
OptionIndices(opts, kind) == {i \in 1..Len(opts) : opts[i].kind = kind}

\* The last option of one kind in an option list that has one.
LastOption(opts, kind) ==
    opts[CHOOSE i \in OptionIndices(opts, kind) :
             \A j \in OptionIndices(opts, kind) : j <= i]

\* C11: NewWithName(name, opts...) returns a service whose Name is name and
\* whose Environment, Port, Version and LogLevel are each the value of the
\* last option that set the field, or the starting value ("", 8000, "",
\* "info") when no option targets it; without a WithLogLevel option Log is
\* the info logger built at the start.
C11_LastOptionWins ==
    (call.op = "NewWithName") =>
        /\ err.nil
        /\ ~svc.nil
        /\ svc.Name = call.name
        /\ svc.Environment =
               (IF OptionIndices(call.opts, "WithEnvironment") = {} THEN <<>>
                ELSE LastOption(call.opts, "WithEnvironment").env)
        /\ svc.Port =
               (IF OptionIndices(call.opts, "WithPort") = {} THEN 8000
                ELSE LastOption(call.opts, "WithPort").port)
        /\ svc.Version =
               (IF OptionIndices(call.opts, "WithVersion") = {} THEN <<>>
                ELSE LastOption(call.opts, "WithVersion").version)
        /\ svc.LogLevel =
               (IF OptionIndices(call.opts, "WithLogLevel") = {} THEN S_info
                ELSE LastOption(call.opts, "WithLogLevel").level)
        /\ (OptionIndices(call.opts, "WithLogLevel") = {})
               => svc.Log = JSONLogger(LevelInfo)

\* Two WithPort options have run: the second one's port stands, and the
\* fields no option targets have their starting values.
C11_Witness ==
    /\ call.op = "NewWithName"
    /\ call.opts = <<WithPort(8003), WithPort(-1)>>
    /\ ~svc.nil
    /\ svc.Port = -1
    /\ svc.Environment = <<>>
    /\ svc.Version = <<>>
    /\ svc.LogLevel = S_info

-----------------------------------------------------------------------------
(* C12 *)

\* The positions of the options of a list that fail in this environment:
\* a caller's failing option, and WithDefaultPort when APP_PORT is bad.
FailingIndices(opts) ==
    {i \in 1..Len(opts) :
        \/ opts[i].kind = "withFailure"
        \/ (opts[i].kind = "WithDefaultPort" /\ BadPortEnv)}

FirstFailing(opts) ==
    CHOOSE i \in FailingIndices(opts) : \A j \in FailingIndices(opts) : i <= j

UpTo(k) == [i \in 1..k |-> i]

\* The port WithDefaultPort(port) leaves when it succeeds.
PortAfterDefault(port) ==
    IF Getenv("APP_PORT") = <<>> THEN port
    ELSE (CHOOSE i \in IntegerStrings : i.s = Getenv("APP_PORT")).n

\* C12: config.New runs its options in the order supplied.  When none
\* fails, all of them ran, in order, and each field has the value of the
\* last option that wrote it (or its base value).  When one fails, the
\* options up to the first failing one ran and no later one, and New
\* returns that option's error and a nil configuration.
C12_OptionsInOrder ==
    ConfigNewCalled =>
        IF FailingIndices(call.opts) = {}
        THEN /\ err.nil
             /\ ~cfg.nil
             /\ call.ran = UpTo(Len(call.opts))
             /\ cfg.Port =
                    (IF OptionIndices(call.opts, "WithDefaultPort") = {} THEN 0
                     ELSE PortAfterDefault(
                              LastOption(call.opts, "WithDefaultPort").port))
             /\ cfg.LogLevel =
                    (IF OptionIndices(call.opts, "withTestLogLevel") = {}
                     THEN ValueOrWhenAbsentOrEmpty("APP_LOG_LEVEL", S_info)
                     ELSE LastOption(call.opts, "withTestLogLevel").level)
             /\ cfg.Environment =
                    (IF OptionIndices(call.opts, "withTestEnv") = {}
                     THEN ValueOrWhenAbsentOrEmpty("APP_ENV", S_local)
                     ELSE LastOption(call.opts, "withTestEnv").env)
        ELSE LET k == FirstFailing(call.opts) IN
             /\ cfg.nil
             /\ ~err.nil
             /\ call.ran = UpTo(k)
             /\ IF call.opts[k].kind = "withFailure"
                THEN err.msg = call.opts[k].msg
                ELSE Contains(err.msg, S_invalidPort)

\* The first option failed with its own error, and WithDefaultPort, which
\* would have failed on the bad APP_PORT with another error, did not run.
C12_Witness ==
    /\ ConfigNewCalled
    /\ call.opts = <<withFailure(S_testMessage), WithDefaultPort(8003)>>
    /\ BadPortEnv
    /\ call.ran = <<1>>
    /\ cfg.nil
    /\ ~err.nil
    /\ err.msg = S_testMessage

-----------------------------------------------------------------------------
(* C13 *)

\* C13: the version main has obtained from Version() is the main module
\* version of the build information when the lookup reports it available,
\* and 'unknown' when it does not, whatever the environment is.
C13_VersionFromBuildInfo ==
    (program = "main" /\ pc # "start") =>
        serviceVersion =
            (IF buildInfo.ok THEN buildInfo.mainVersion ELSE S_unknown)

\* Version() has returned the main module version of a development build.
C13_Witness ==
    /\ call.op = "version.Version"
    /\ buildInfo.ok
    /\ buildInfo.mainVersion = S_devel
    /\ serviceVersion = S_devel

-----------------------------------------------------------------------------
(* C14 *)

\* The positions of the WithLogLevel options whose name the logger factory
\* accepts, and of those whose name it rejects.
AcceptedLogLevelIndices(opts) ==
    {i \in OptionIndices(opts, "WithLogLevel") :
        opts[i].level \in SupportedLevelInputs}

RejectedLogLevelIndices(opts) ==
    {i \in OptionIndices(opts, "WithLogLevel") :
        opts[i].level \notin SupportedLevelInputs}

\* The level a supported name stands for, in any letter-casing.
LevelNamedBy(level) ==
    LevelOf(CHOOSE name \in LevelNames : level \in CaseVariants(name))

\* The logger in place after the options: the one the last accepted
\* WithLogLevel option built, or the info logger of the start.
LoggerInPlace(opts) ==
    IF AcceptedLogLevelIndices(opts) = {} THEN JSONLogger(LevelInfo)
    ELSE JSONLogger(LevelNamedBy(
             opts[CHOOSE i \in AcceptedLogLevelIndices(opts) :
                      \A j \in AcceptedLogLevelIndices(opts) : j <= i].level))

\* C14: when an option list holds a WithLogLevel option with a name the
\* logger factory rejects, NewWithName still returns a service and no
\* error, and the rejected option leaves Log as it was: Log is the logger
\* of the last accepted WithLogLevel option, or the info logger of the
\* start.
C14_RebuildFailureSwallowed ==
    (call.op = "NewWithName" /\ RejectedLogLevelIndices(call.opts) # {}) =>
        /\ err.nil
        /\ ~svc.nil
        /\ svc.Log = LoggerInPlace(call.opts)

\* WithLogLevel("trace") after WithLogLevel("debug"): the service is
\* returned with LogLevel "trace" and the debug logger still in place.
C14_Witness ==
    /\ call.op = "NewWithName"
    /\ call.opts = <<WithLogLevel(S_debug), WithLogLevel(S_trace)>>
    /\ err.nil
    /\ ~svc.nil
    /\ svc.LogLevel = S_trace
    /\ svc.Log = JSONLogger(LevelDebug)

-----------------------------------------------------------------------------
(* C15 *)

\* What a step does to the process-wide default logger: a logger.New that
\* succeeds installs the logger it returns and one that fails leaves the
\* default logger alone; NewWithName leaves the logger of its most recent
\* successful construction (the last accepted WithLogLevel rebuild, or the
\* info logger of the start); no other step changes it.
DefaultLoggerStep ==
    /\ (call'.op = "logger.New") =>
           IF err'.nil THEN defaultLogger' = log'
           ELSE defaultLogger' = defaultLogger
    /\ (call'.op = "NewWithName") =>
           defaultLogger' = LoggerInPlace(call'.opts)
    /\ (call'.op \notin {"logger.New", "NewWithName"}) =>
           defaultLogger' = defaultLogger

\* C15: through any sequence of logger constructions the process-wide
\* default logger is the logger of the most recent successful construction,
\* and a construction that fails leaves it unchanged.
C15_DefaultLoggerLastWriter == [][DefaultLoggerStep]_vars

\* logger.New has just failed and the default logger is still the warn
\* logger an earlier construction installed.
C15_Witness ==
    /\ call.op = "logger.New"
    /\ ~err.nil
    /\ log.nil
    /\ defaultLogger = JSONLogger(LevelWarn)

====
